---- MODULE Spec2Model ----
(***************************************************************************)
(* Ingestion gateway: the leaky-bucket admission controller of             *)
(* src/api/main.py and the streamed PDF upload of                          *)
(* src/services/file_handler.py with the sidecar sync of                   *)
(* src/services/db_manager.py.                                             *)
(*                                                                         *)
(* Scheduling is the cooperative scheduling of one asyncio event loop: a   *)
(* handler runs without interruption between two suspension points, so     *)
(* one action is the code between two suspension points.  The filesystem   *)
(* calls follow POSIX semantics (an open file can be unlinked).            *)
(*                                                                         *)
(* Time is counted in ticks; TicksPerToken ticks leak one unit out of the  *)
(* bucket, so one tick is 1 / (leak_rate * TicksPerToken) seconds and the  *)
(* level is held in units of 1 / TicksPerToken.                            *)
(***************************************************************************)
EXTENDS Integers, Sequences, FiniteSets, TLC

\* ---- bounds ------------------------------------------------------------
\* the byte ceiling, scaled down from 100 * 1024 * 1024
MAX_PDF_SIZE_BYTES == 4
\* resolution of the clock: ticks that leak one unit
TicksPerToken == 2
\* largest gap, in ticks, between two accesses of the bucket
MaxElapsed == 6
\* saturation of the counter of rejections
MaxCount == 2
\* direct calls of the sync on one directory
MaxSync == 2

\* ---- program constants -------------------------------------------------
capacity == 2

PDF_MAGIC == <<"%", "P", "D", "F">>

\* ---- inputs --------------------------------------------------------------
Reqs == {"r1", "r2"}

Kinds == {"status", "upload"}

\* file names are strings of characters
NAME_A_PDF == <<"a", ".", "p", "d", "f">>
NAME_B_TXT == <<"b", ".", "t", "x", "t">>
FileNames == {NAME_A_PDF, NAME_B_TXT}

\* a header is either not sent or carries a value
NoName == [present |-> FALSE, value |-> <<>>]
NameHeaders == {NoName} \cup {[present |-> TRUE, value |-> n] : n \in FileNames}

NoType == [present |-> FALSE, value |-> ""]
TypeHeaders == {NoType}
                  \cup {[present |-> TRUE, value |-> v] :
                          v \in {"application/pdf", "Application/X-PDF", "text/plain"}}

\* the decimal numeral of a number below 100
DigitChar(d) ==
    CASE d = 0 -> "0" [] d = 1 -> "1" [] d = 2 -> "2" [] d = 3 -> "3" [] d = 4 -> "4"
      [] d = 5 -> "5" [] d = 6 -> "6" [] d = 7 -> "7" [] d = 8 -> "8" [] OTHER -> "9"

Numeral(n) ==
    IF n < 10 THEN <<DigitChar(n)>> ELSE <<DigitChar(n \div 10), DigitChar(n % 10)>>

NoLength == [present |-> FALSE, value |-> <<>>]
LengthHeaders == {NoLength}
                  \cup {[present |-> TRUE, value |-> v] :
                          v \in {<<"x">>, Numeral(MAX_PDF_SIZE_BYTES),
                                 Numeral(MAX_PDF_SIZE_BYTES + 1)}}

\* the chunks a transport may deliver
Chunks == {<<>>, <<"%">>, <<"P", "D", "F">>, <<"%", "P", "D", "F">>, <<"x", "P", "D", "F">>}

\* ---- helpers -------------------------------------------------------------
Max(a, b) == IF a >= b THEN a ELSE b

Min(a, b) == IF a <= b THEN a ELSE b

Take(s, n) == SubSeq(s, 1, Min(n, Len(s)))

Remove(f, k) == [x \in DOMAIN f \ {k} |-> f[x]]

Put(f, k, v) == [x \in DOMAIN f \cup {k} |-> IF x = k THEN v ELSE f[x]]

\* str.lower() on one character
LowerChar(c) ==
    CASE c = "A" -> "a" [] c = "B" -> "b" [] c = "P" -> "p"
      [] c = "D" -> "d" [] c = "F" -> "f" [] c = "T" -> "t" [] c = "X" -> "x"
      [] OTHER -> c

Lower(s) == [i \in 1..Len(s) |-> LowerChar(s[i])]

EndsWith(s, suffix) ==
    /\ Len(s) >= Len(suffix)
    /\ SubSeq(s, Len(s) - Len(suffix) + 1, Len(s)) = suffix

\* str.lower() on a content-type
LowerType(v) ==
    CASE v = "Application/X-PDF" -> "application/x-pdf"
      [] v = "Application/PDF" -> "application/pdf"
      [] OTHER -> v

DigitValue(c) ==
    CASE c = "0" -> 0 [] c = "1" -> 1 [] c = "2" -> 2 [] c = "3" -> 3 [] c = "4" -> 4
      [] c = "5" -> 5 [] c = "6" -> 6 [] c = "7" -> 7 [] c = "8" -> 8 [] c = "9" -> 9
      [] OTHER -> -1

\* int(): the value of a string of decimal digits, -1 for ValueError
RECURSIVE ParseInt(_)
ParseInt(s) ==
    IF Len(s) = 0 THEN -1
    ELSE IF DigitValue(s[Len(s)]) < 0 THEN -1
    ELSE IF Len(s) = 1 THEN DigitValue(s[1])
    ELSE LET hi == ParseInt(SubSeq(s, 1, Len(s) - 1))
         IN  IF hi < 0 THEN -1 ELSE 10 * hi + DigitValue(s[Len(s)])

\* ---- the admission controller (src/api/main.py) ---------------------------
\* the leak without the clamp at 0
Leak_noclamp(lvl, gap) == lvl - gap

\* no leak at all
Leak_none(lvl, gap) == lvl

\* level = max(0.0, level - leak_rate * elapsed), in units of 1 / TicksPerToken
Leak(lvl, gap) == Max(0, lvl - gap)

\* the comparison made strict
BucketFull_gt(lvl) == lvl > capacity * TicksPerToken

\* _bucket_level >= bucket_cfg.capacity
BucketFull(lvl) == lvl >= capacity * TicksPerToken

\* the increment counted twice
Fill_double(lvl) == lvl + 2 * TicksPerToken

\* the increment of one tick of leak instead of one unit
Fill_tick(lvl) == lvl + 1

\* the increment left out
Fill_none(lvl) == lvl

\* _bucket_level += 1.0
Fill(lvl) == lvl + TicksPerToken

\* _bucket_lock = asyncio.Lock(): the request that holds it, NoHolder when free
NoHolder == "none"

\* the lock kept when the block is left by a raise
LockOnExit_raise(holder, raised) == IF raised THEN holder ELSE NoHolder

\* async with _bucket_lock: the lock as the block is left, by return or by raise
LockOnExit(holder, raised) == NoHolder

\* ---- the upload validator (src/services/file_handler.py) ------------------
PDF_SUFFIX == <<".", "p", "d", "f">>

ALLOWED_TYPES == {"application/pdf", "application/x-pdf"}

\* if not file_name
missing_file_name(file_name) == ~file_name.present \/ file_name.value = <<>>

\* the extension required whatever the content-type
check_type_ext(file_name, content_type) ==
    \/ ~EndsWith(Lower(file_name), PDF_SUFFIX)
    \/ (content_type.present /\ content_type.value # ""
           /\ LowerType(content_type.value) \notin ALLOWED_TYPES)

\* _check_type: TRUE when it raises 415
check_type(file_name, content_type) ==
    IF content_type.present /\ content_type.value # ""
    THEN LowerType(content_type.value) \notin ALLOWED_TYPES
    ELSE ~EndsWith(Lower(file_name), PDF_SUFFIX)

\* length_val: int(content_length), -1 standing for None (no header, an
\* empty header or a ValueError)
length_val(content_length) ==
    IF content_length.present /\ content_length.value # <<>>
    THEN ParseInt(content_length.value)
    ELSE -1

\* length_val > MAX_PDF_SIZE_BYTES
length_too_large(content_length) == length_val(content_length) > MAX_PDF_SIZE_BYTES

\* the existence check left out
check_duplicate_never(fs, file_name) == FALSE

\* _check_duplicate: TRUE when it raises 409
check_duplicate(fs, file_name) == file_name \in DOMAIN fs

\* the duplicate check moved ahead of the header checks
PreStreamStatus_reordered(fs, file_name, content_type, content_length) ==
    IF file_name.present /\ check_duplicate(fs, file_name.value) THEN 409
    ELSE IF missing_file_name(file_name) THEN 400
    ELSE IF check_type(file_name.value, content_type) THEN 415
    ELSE IF length_too_large(content_length) THEN 413
    ELSE 0

\* the checks of handle_pdf_upload that precede the stream: the status
\* raised, 0 when the request goes on to stream
PreStreamStatus(fs, file_name, content_type, content_length) ==
    IF missing_file_name(file_name) THEN 400
    ELSE IF check_type(file_name.value, content_type) THEN 415
    ELSE IF length_too_large(content_length) THEN 413
    ELSE IF check_duplicate(fs, file_name.value) THEN 409
    ELSE 0

\* ---- the streaming engine (_stream_to_disk) -------------------------------
\* the destination not created until the first write
open_wb_deferred(fs, file_name) == fs

\* dest.open("wb"): the destination exists, empty, from here on
open_wb(fs, file_name) == Put(fs, file_name, <<>>)

\* only the first byte compared
MagicOK_first(bytes) == Take(bytes, 1) = Take(PDF_MAGIC, 1)

\* an empty header taken for the signature
MagicOK_empty(bytes) == bytes = <<>> \/ Take(bytes, 4) = PDF_MAGIC

\* chunk[:4] == b'%PDF'
MagicOK(bytes) == Take(bytes, 4) = PDF_MAGIC

\* is_valid_pdf after the chunk: set from the first non-empty chunk when that
\* chunk holds 4 bytes or more
ValidAfter(first_chunk, is_valid, chunk) ==
    IF first_chunk = <<>> /\ Len(chunk) >= 4 THEN MagicOK(chunk) ELSE is_valid

\* the ceiling itself rejected
OverCeiling_ge(written) == written >= MAX_PDF_SIZE_BYTES

\* written > max_bytes
OverCeiling(written) == written > MAX_PDF_SIZE_BYTES

\* the file never read back
NeedsReread_never(first_chunk, written) == FALSE

\* the file read back only when more than 4 bytes were written
NeedsReread_gt(first_chunk, written) ==
    first_chunk = <<>> \/ (Len(first_chunk) < 4 /\ written > 4)

\* first_chunk is None or (len(first_chunk) < 4 and written >= 4)
NeedsReread(first_chunk, written) ==
    first_chunk = <<>> \/ (Len(first_chunk) < 4 /\ written >= 4)

\* is_valid_pdf as _stream_to_disk returns it; data is what f.read(4) reads from
StreamVerdict(first_chunk, is_valid, written, data) ==
    IF NeedsReread(first_chunk, written) THEN MagicOK(data) ELSE is_valid

\* ---- the sidecar file (_write_metadata) ------------------------------------
\* a sidecar file: whether read_text succeeds on it, and its lines.  A line
\* key=value is the pair <<key, value>>, a line without "=" is <<text>>.  A
\* unique_id value is a number (0 stands for a text that is no UUID), an
\* uploaded_at value is "utcnow" or a text that is no timestamp.
SidecarFile(readable, lines) == [readable |-> readable, lines |-> lines]

\* the four lines _write_metadata writes
write_metadata(unique_id, file_name) ==
    SidecarFile(TRUE, << <<"unique_id", unique_id>>, <<"file_name", file_name>>,
                         <<"storage_path", file_name>>, <<"uploaded_at", "utcnow">> >>)

\* ---- the sidecar sync (src/services/db_manager.py) ------------------------
REQUIRED_KEYS == {"unique_id", "file_name", "storage_path", "uploaded_at"}

\* MetadataRecord(...) validates: unique_id parses as a UUID, uploaded_at as a
\* datetime
RecordValid(data) == data.unique_id > 0 /\ data.uploaded_at = "utcnow"

\* the loop over the lines: lines without "=" are skipped, a later line of a
\* key replaces an earlier one
RECURSIVE ParseLines(_, _)
ParseLines(lines, data) ==
    IF lines = <<>> THEN data
    ELSE IF Len(Head(lines)) < 2 THEN ParseLines(Tail(lines), data)
    ELSE ParseLines(Tail(lines), Put(data, Head(lines)[1], Head(lines)[2]))

\* the values taken as they are, not validated
parse_metadata_file_novalidate(file) ==
    IF ~file.readable THEN {}
    ELSE LET data == ParseLines(file.lines, <<>>)
         IN  IF ~(REQUIRED_KEYS \subseteq DOMAIN data) THEN {}
             ELSE {[k \in REQUIRED_KEYS |-> data[k]]}

\* parse_metadata_file: the set holding the record, empty for None
parse_metadata_file(file) ==
    IF ~file.readable THEN {}
    ELSE LET data == ParseLines(file.lines, <<>>)
         IN  IF ~(REQUIRED_KEYS \subseteq DOMAIN data) THEN {}
             ELSE IF ~RecordValid(data) THEN {}
             ELSE {[k \in REQUIRED_KEYS |-> data[k]]}

\* the orders in which directory.glob may list the files of a directory
GlobOrders(dir) ==
    {ord \in [1..Cardinality(DOMAIN dir) -> DOMAIN dir] :
        \A i, j \in DOMAIN ord : i # j => ord[i] # ord[j]}

\* load_metadata_from_dir: the records of the files, in the order ord lists them
RECURSIVE load_metadata_from_dir(_, _)
load_metadata_from_dir(dir, ord) ==
    IF ord = <<>> THEN <<>>
    ELSE LET record == parse_metadata_file(dir[Head(ord)])
             rest == load_metadata_from_dir(dir, Tail(ord))
         IN  IF record = {} THEN rest ELSE <<CHOOSE r \in record : TRUE>> \o rest

\* the rows of the table that hold this unique_id
Conflicts(rows, unique_id) == {i \in DOMAIN rows : rows[i].unique_id = unique_id}

\* the insert without its ON CONFLICT clause
RECURSIVE insert_metadata_records_noconflict(_, _)
insert_metadata_records_noconflict(rows, records) ==
    IF records = <<>> THEN [rows |-> rows, rows_inserted |-> 0]
    ELSE LET rest == insert_metadata_records_noconflict(Append(rows, Head(records)),
                                                        Tail(records))
         IN  [rows |-> rest.rows, rows_inserted |-> rest.rows_inserted + 1]

\* insert_metadata_records: INSERT ... ON CONFLICT (unique_id) DO NOTHING for
\* each record in turn; the table afterwards and cur.rowcount
RECURSIVE insert_metadata_records(_, _)
insert_metadata_records(rows, records) ==
    IF records = <<>> THEN [rows |-> rows, rows_inserted |-> 0]
    ELSE IF Conflicts(rows, Head(records).unique_id) # {}
    THEN insert_metadata_records(rows, Tail(records))
    ELSE LET rest == insert_metadata_records(Append(rows, Head(records)), Tail(records))
         IN  [rows |-> rest.rows, rows_inserted |-> rest.rows_inserted + 1]

\* the sync left out
sync_metadata_directory_to_db_skipped(rows, dir, ord) ==
    [rows |-> rows, rows_inserted |-> 0]

\* sync_metadata_directory_to_db
sync_metadata_directory_to_db(rows, dir, ord) ==
    insert_metadata_records(rows, load_metadata_from_dir(dir, ord))

\* ---- state ---------------------------------------------------------------
VARIABLES
    level,        \* _bucket_level, in units of 1 / TicksPerToken
    lock,         \* _bucket_lock: the request that holds it
    elapsed,      \* time.monotonic() - _bucket_updated_at, in ticks
    req,          \* the requests: position and locals of each handler
    files,        \* PDF_STORAGE_DIR: file name -> bytes
    sidecars,     \* METADATA_DIR: file name -> the sidecar file <file name>.txt
    db,           \* the metadata table: its rows, in the order of insertion
    uuid_seq,     \* number of uuid4() calls made
    response,     \* status code of the latest response sent
    payload,      \* content of the latest 201 response
    answered,     \* responses sent to the latest request of each client
    synced,       \* what the direct calls of sync_metadata_directory_to_db returned
    created,      \* file names an upload was answered 201 for
    refused,      \* file name of the latest upload answered 409 while another
                  \* upload of the name was streaming
    burstBase,    \* the leaked level when time last advanced
    burstAdm,     \* admissions since time last advanced
    burstRej,     \* rejections since time last advanced (saturating)
    burstKinds,   \* endpoints admitted since time last advanced
    recov         \* what followed the latest rejection: the stage reached, the
                  \* leaked level at the rejection, the ticks waited after it

vars == <<level, lock, elapsed, req, files, sidecars, db, uuid_seq, response, payload, answered,
          synced, created, refused,
          burstBase, burstAdm, burstRej, burstKinds, recov>>

bucketVars == <<level, lock, elapsed, burstBase, burstAdm, burstRej, burstKinds, recov>>

storeVars == <<files, sidecars, db, uuid_seq, created, refused, payload, synced>>

Idle ==
    [pc |-> "idle", kind |-> "none", name |-> <<>>, ctype |-> "", length_val |-> -1,
     body |-> <<>>, written |-> 0, first_chunk |-> <<>>, is_valid |-> FALSE]

\* a response: its status code and the phase of the request that sent it
Response(status, phase) == [status |-> status, phase |-> phase]

\* the JSON content upload_pdf answers with
Payload(file_name, unique_id, inserted) ==
    [file_name |-> file_name, unique_id |-> unique_id, db_rows_inserted |-> inserted]

NoPayload == Payload(<<>>, 0, 0)

NoRecovery == [stage |-> "none", level |-> 0, leak |-> 0]

\* an upload of the name n is streaming
InFlight(n) == \E p \in Reqs : req[p].pc = "stream" /\ req[p].name = n

Init ==
    /\ level = 0
    /\ lock = NoHolder
    /\ elapsed = 0
    /\ req = [p \in Reqs |-> Idle]
    /\ files = <<>>
    /\ sidecars = <<>>
    /\ db = <<>>
    /\ uuid_seq = 0
    /\ response = Response(0, "none")
    /\ payload = NoPayload
    /\ answered = [p \in Reqs |-> 0]
    /\ synced = <<>>
    /\ created = {}
    /\ refused = <<>>
    /\ burstBase = 0
    /\ burstAdm = 0
    /\ burstRej = 0
    /\ burstKinds = {}
    /\ recov = NoRecovery

\* ---- actions -------------------------------------------------------------
\* a client sends GET /rate-limit or POST /upload/pdf
Arrive(p, k) ==
    /\ req[p].pc = "idle"
    /\ req' = [req EXCEPT ![p] = [Idle EXCEPT !.pc = "pending", !.kind = k]]
    /\ answered' = [answered EXCEPT ![p] = 0]
    /\ UNCHANGED <<bucketVars, storeVars, response>>

\* time advances by d ticks
Tick(d) ==
    /\ elapsed + d <= MaxElapsed
    /\ elapsed' = elapsed + d
    /\ burstBase' = Leak(level, elapsed + d)
    /\ burstAdm' = 0
    /\ burstRej' = 0
    /\ burstKinds' = {}
    /\ recov' = IF recov.stage = "readmitted" THEN NoRecovery ELSE recov
    /\ UNCHANGED <<level, lock, req, storeVars, response, answered>>

\* enforce_rate_limit, and rate_limit_status for GET /rate-limit: the lock is
\* acquired when free, and the block runs to its exit with no suspension
EnforceRateLimit(p) ==
    /\ req[p].pc = "pending"
    /\ lock = NoHolder
    /\ LET leaked == Leak(level, elapsed)
           full == BucketFull(leaked)
       IN  /\ level' = IF full THEN leaked ELSE Fill(leaked)
           /\ lock' = LockOnExit(p, full)
           /\ elapsed' = 0
           /\ req' = [req EXCEPT ![p] =
                        IF full \/ req[p].kind = "status" THEN Idle
                        ELSE [req[p] EXCEPT !.pc = "admitted"]]
           /\ response' = IF full THEN Response(503, "admission")
                          ELSE IF req[p].kind = "status" THEN Response(200, "admission")
                          ELSE response
           /\ answered' = IF full \/ req[p].kind = "status"
                          THEN [answered EXCEPT ![p] = @ + 1]
                          ELSE answered
           /\ burstBase' = burstBase
           /\ burstAdm' = IF full THEN burstAdm ELSE burstAdm + 1
           /\ burstRej' = IF full THEN Min(burstRej + 1, MaxCount) ELSE burstRej
           /\ burstKinds' = IF full THEN burstKinds ELSE burstKinds \cup {req[p].kind}
           /\ recov' = IF full /\ recov.stage = "readmitted"
                       THEN [stage |-> "resaturated", level |-> leaked, leak |-> recov.leak]
                       ELSE IF full
                       THEN [stage |-> "rejected", level |-> leaked, leak |-> 0]
                       ELSE IF recov.stage \in {"rejected", "resaturated"}
                               /\ elapsed >= TicksPerToken
                       THEN [stage |-> "readmitted", level |-> recov.level, leak |-> elapsed]
                       ELSE NoRecovery
    /\ UNCHANGED storeVars

\* handle_pdf_upload up to its first suspension: the header checks, the
\* duplicate check and dest.open("wb")
HandleUpload(p, file_name, content_type, content_length) ==
    /\ req[p].pc = "admitted"
    /\ LET st == PreStreamStatus(files, file_name, content_type, content_length)
       IN  IF st # 0
           THEN /\ req' = [req EXCEPT ![p] = Idle]
                /\ response' = Response(st, "validate")
                /\ answered' = [answered EXCEPT ![p] = @ + 1]
                /\ files' = files
                /\ refused' = IF st = 409 /\ InFlight(file_name.value)
                              THEN file_name.value
                              ELSE refused
           ELSE /\ req' = [req EXCEPT ![p] =
                             [req[p] EXCEPT !.pc = "stream", !.name = file_name.value,
                                            !.ctype = content_type.value,
                                            !.length_val = length_val(content_length)]]
                /\ response' = response
                /\ answered' = answered
                /\ files' = open_wb(files, file_name.value)
                /\ refused' = refused
    /\ UNCHANGED <<bucketVars, sidecars, db, uuid_seq, created, payload, synced>>

\* _stream_to_disk: one turn of the loop, on the chunk the stream delivers
StreamChunk(p, chunk) ==
    /\ req[p].pc = "stream"
    /\ LET r == req[p]
           total == r.written + Len(chunk)
       IN  IF chunk = <<>>
           THEN UNCHANGED <<req, files, response, answered>>
           ELSE IF OverCeiling(total)
           THEN /\ files' = Remove(files, r.name)
                /\ response' = Response(413, "stream")
                /\ answered' = [answered EXCEPT ![p] = @ + 1]
                /\ req' = [req EXCEPT ![p] = Idle]
           ELSE /\ files' = Put(files, r.name, files[r.name] \o chunk)
                /\ response' = response
                /\ answered' = answered
                /\ req' = [req EXCEPT ![p] =
                             [r EXCEPT !.body = r.body \o chunk,
                                       !.written = total,
                                       !.first_chunk = IF r.first_chunk = <<>> THEN chunk
                                                       ELSE r.first_chunk,
                                       !.is_valid = ValidAfter(r.first_chunk, r.is_valid, chunk)]]
    /\ UNCHANGED <<bucketVars, sidecars, db, uuid_seq, created, refused, payload, synced>>

\* _stream_to_disk: the stream raises (the client disconnected) or f.write
\* raises; the with block closes the file and the exception is answered 500
StreamRaises(p) ==
    /\ req[p].pc = "stream"
    /\ req' = [req EXCEPT ![p] = Idle]
    /\ response' = Response(500, "stream")
    /\ answered' = [answered EXCEPT ![p] = @ + 1]
    /\ UNCHANGED <<bucketVars, storeVars>>

\* the stream ends: the rest of _stream_to_disk and of handle_pdf_upload, then
\* sync_metadata_directory_to_db and the response of upload_pdf.  meta_ok and
\* sync_ok tell whether write_text and the database round-trip succeed.
StreamEnd(p, meta_ok, sync_ok) ==
    /\ req[p].pc = "stream"
    /\ LET r == req[p]
           valid == StreamVerdict(r.first_chunk, r.is_valid, r.written, files[r.name])
           unique_id == uuid_seq + 1
           written_sidecars == Put(sidecars, r.name, write_metadata(unique_id, r.name))
       IN  IF ~valid
           THEN /\ files' = Remove(files, r.name)
                /\ response' = Response(415, "finish")
                /\ UNCHANGED <<sidecars, db, uuid_seq, created, payload>>
           ELSE /\ files' = files
                /\ uuid_seq' = unique_id
                /\ sidecars' = IF meta_ok THEN written_sidecars ELSE sidecars
                /\ response' = Response(IF meta_ok /\ sync_ok THEN 201 ELSE 500, "finish")
                /\ created' = IF meta_ok /\ sync_ok THEN created \cup {r.name} ELSE created
                /\ IF meta_ok /\ sync_ok
                   THEN \E ord \in GlobOrders(written_sidecars) :
                           LET result == sync_metadata_directory_to_db(db, written_sidecars, ord)
                           IN  /\ db' = result.rows
                               /\ payload' = Payload(r.name, unique_id, result.rows_inserted)
                   ELSE UNCHANGED <<db, payload>>
    /\ req' = [req EXCEPT ![p] = Idle]
    /\ answered' = [answered EXCEPT ![p] = @ + 1]
    /\ UNCHANGED <<bucketVars, synced, refused>>

\* the header triples of the uploads driven through the whole lifecycle: they
\* name one destination, the name without the .pdf suffix comes only with a
\* content-type header that the type check refuses
UploadHeaders ==
    {h \in NameHeaders \X TypeHeaders \X LengthHeaders :
        (h[1].present /\ h[1].value = NAME_B_TXT) => check_type(h[1].value, h[2])}

\* the upload lifecycle: time advances by idle periods that drain the bucket
Next ==
    \/ \E p \in Reqs : Arrive(p, "upload")
    \/ Tick(MaxElapsed)
    \/ \E p \in Reqs : EnforceRateLimit(p)
    \/ \E p \in Reqs, h \in UploadHeaders : HandleUpload(p, h[1], h[2], h[3])
    \/ \E p \in Reqs, c \in Chunks : StreamChunk(p, c)
    \/ \E p \in Reqs : StreamRaises(p)
    \/ \E p \in Reqs, m \in BOOLEAN, s \in BOOLEAN : StreamEnd(p, m, s)

Spec == Init /\ [][Next]_vars

\* the event loop runs every task that is ready: a request that can take the
\* lock does take it
SpecFair == Spec /\ \A p \in Reqs : WF_vars(EnforceRateLimit(p))

\* the admission controller: time advances tick by tick, and the uploads it
\* admits carry no x-file-name header, so that the handler leaves the store alone
NextAdmission ==
    \/ \E p \in Reqs, k \in Kinds : Arrive(p, k)
    \/ Tick(1)
    \/ \E p \in Reqs : EnforceRateLimit(p)
    \/ \E p \in Reqs : HandleUpload(p, NoName, NoType, NoLength)

SpecAdmission == Init /\ [][NextAdmission]_vars

\* the validator: uploads of every name under every content-type header, an
\* upper-case name and an empty content-type among them, whose body is the
\* signature alone
NAME_C_UPPER == <<"C", ".", "P", "D", "F">>

EmptyType == [present |-> TRUE, value |-> ""]

ValidatorHeaders ==
    ({[present |-> TRUE, value |-> n] : n \in FileNames \cup {NAME_C_UPPER}})
        \X (TypeHeaders \cup {EmptyType}) \X {NoLength}

NextValidator ==
    \/ \E p \in Reqs : Arrive(p, "upload")
    \/ Tick(MaxElapsed)
    \/ \E p \in Reqs : EnforceRateLimit(p)
    \/ \E p \in Reqs, h \in ValidatorHeaders : HandleUpload(p, h[1], h[2], h[3])
    \/ \E p \in Reqs : StreamChunk(p, PDF_MAGIC)
    \/ \E p \in Reqs : StreamEnd(p, TRUE, TRUE)

SpecValidator == Init /\ [][NextValidator]_vars

\* the streaming engine: one client uploads one name, its body cut into chunks
\* of one or two bytes and a few longer ones
Bytes == {"%", "P", "D", "F"}

ByteChunks ==
    {<<>>} \cup {<<b>> : b \in Bytes} \cup {<<b, c>> : b \in Bytes, c \in Bytes}
        \cup {<<"%", "P", "D">>, <<"P", "D", "F">>, PDF_MAGIC, <<"P", "%", "D", "F">>,
              <<"%", "P", "D", "F", "%">>}

Uploader == CHOOSE p \in Reqs : TRUE

NextStream ==
    \/ Arrive(Uploader, "upload")
    \/ EnforceRateLimit(Uploader)
    \/ HandleUpload(Uploader, [present |-> TRUE, value |-> NAME_A_PDF],
                    [present |-> TRUE, value |-> "application/pdf"], NoLength)
    \/ \E c \in ByteChunks : StreamChunk(Uploader, c)
    \/ StreamEnd(Uploader, TRUE, TRUE)

SpecStream == Init /\ [][NextStream]_vars

\* the sync called directly on a sidecar directory that holds well-formed and
\* malformed sidecars, against a table that holds some rows already
Ids == {1, 2}

\* well-formed sidecars of a name: as _write_metadata writes them, or with a
\* line without "=" and a unique_id line that a later one replaces
GoodSidecars(n, id) ==
    {write_metadata(id, n),
     SidecarFile(TRUE, << <<"note">>, <<"unique_id", 0>> >> \o write_metadata(id, n).lines)}

\* the lines but the i-th
DropLine(lines, i) == SubSeq(lines, 1, i - 1) \o SubSeq(lines, i + 1, Len(lines))

\* malformed sidecars of a name: unreadable, a required key missing, a
\* unique_id that is no UUID, an uploaded_at that is no timestamp
BadSidecars(n) ==
    {SidecarFile(FALSE, write_metadata(1, n).lines)}
        \cup {SidecarFile(TRUE, DropLine(write_metadata(1, n).lines, i)) : i \in 1..4}
        \cup {write_metadata(0, n),
              SidecarFile(TRUE, << <<"unique_id", 2>>, <<"file_name", n>>,
                                   <<"storage_path", n>>, <<"uploaded_at", "yesterday">> >>)}

SidecarInputs(n) == BadSidecars(n) \cup UNION {GoodSidecars(n, id) : id \in Ids}

\* the directories: each name has no sidecar or one of the sidecars above
Directories ==
    UNION {[names -> UNION {SidecarInputs(n) : n \in names}] : names \in SUBSET FileNames}

\* the row of a record
Row(unique_id, file_name) ==
    [unique_id |-> unique_id, file_name |-> file_name, storage_path |-> file_name,
     uploaded_at |-> "utcnow"]

Tables == {<<>>, <<Row(1, NAME_A_PDF)>>, <<Row(3, NAME_C_UPPER)>>}

InitSync ==
    /\ level = 0
    /\ lock = NoHolder
    /\ elapsed = 0
    /\ req = [p \in Reqs |-> Idle]
    /\ files = <<>>
    /\ sidecars \in {d \in Directories : \A n \in DOMAIN d : d[n] \in SidecarInputs(n)}
    /\ db \in Tables
    /\ uuid_seq = 0
    /\ response = Response(0, "none")
    /\ payload = NoPayload
    /\ answered = [p \in Reqs |-> 0]
    /\ synced = <<>>
    /\ created = {}
    /\ refused = <<>>
    /\ burstBase = 0
    /\ burstAdm = 0
    /\ burstRej = 0
    /\ burstKinds = {}
    /\ recov = NoRecovery

\* sync_metadata_directory_to_db called on the directory, glob listing it in
\* the order ord
SyncDirectory(ord) ==
    /\ Len(synced) < MaxSync
    /\ LET result == sync_metadata_directory_to_db(db, sidecars, ord)
       IN  /\ db' = result.rows
           /\ synced' = Append(synced, result.rows_inserted)
    /\ UNCHANGED <<bucketVars, req, files, sidecars, uuid_seq, response, payload, answered,
                   created, refused>>

NextSync == \E ord \in GlobOrders(sidecars) : SyncDirectory(ord)

SpecSync == InitSync /\ [][NextSync]_vars

TypeOK ==
    /\ level \in 0..((capacity + 1) * TicksPerToken)
    /\ lock \in Reqs \cup {NoHolder}
    /\ elapsed \in 0..MaxElapsed
    /\ DOMAIN files \subseteq FileNames \cup {NAME_C_UPPER}
    /\ DOMAIN sidecars \subseteq FileNames \cup {NAME_C_UPPER}
    /\ refused \in FileNames \cup {NAME_C_UPPER, <<>>}

\* ---- steps of a request, as seen on a transition ----------------------------
\* p's admission attempt runs in this step
Attempted(p) == req[p].pc = "pending" /\ req'[p].pc # "pending"

RejectedStep(p) ==
    /\ Attempted(p)
    /\ req'[p] = Idle
    /\ response' = Response(503, "admission")

AdmittedStep(p) ==
    /\ Attempted(p)
    /\ IF req[p].kind = "status"
       THEN req'[p] = Idle /\ response' = Response(200, "admission")
       ELSE req'[p].pc = "admitted"

\* p's pre-stream part of handle_pdf_upload runs in this step
ValidatedStep(p) == req[p].pc = "admitted" /\ req'[p].pc # "admitted"

\* p's request ends in this step
EndedStep(p) == req[p].pc = "stream" /\ req'[p].pc = "idle"

\* the bytes start with the 4 bytes %PDF
HasSignature(b) ==
    /\ Len(b) >= 4
    /\ b[1] = "%"
    /\ b[2] = "P"
    /\ b[3] = "D"
    /\ b[4] = "F"

\* ---- C1 ----------------------------------------------------------------------
\* C1: all-or-nothing uploads.  For every file name with no request in flight,
\* either an upload was answered 201 for it and the stored file, with a valid
\* %PDF signature, and its sidecar both exist, or no upload was answered 201
\* for it and neither the file nor the sidecar exists.
C1_AllOrNothing ==
    \A n \in FileNames :
        \/ InFlight(n)
        \/ /\ n \in created
           /\ n \in DOMAIN files
           /\ HasSignature(files[n])
           /\ n \in DOMAIN sidecars
        \/ /\ n \notin created
           /\ n \notin DOMAIN files
           /\ n \notin DOMAIN sidecars

\* ---- C2 ----------------------------------------------------------------------
\* C2: no lost updates.  When the leaked level was capacity - 1 as time last
\* advanced and two or more admission attempts have run since, in any order of
\* the callers, exactly one of them was admitted and the others were rejected.
C2_NoLostUpdates ==
    (burstBase = (capacity - 1) * TicksPerToken /\ burstAdm + burstRej >= 2)
        => (burstAdm = 1 /\ burstRej >= 1)

C2_Witness ==
    /\ burstBase = (capacity - 1) * TicksPerToken
    /\ burstAdm = 1
    /\ burstRej >= 1
    /\ \E p \in Reqs : req[p].pc = "pending"

\* ---- C3 ----------------------------------------------------------------------
\* C3: leak monotonicity over the shared bucket.  Starting from an empty bucket,
\* with N admissions made since through either endpoint and no time elapsed,
\* the next admission attempt is rejected if and only if N >= capacity, and is
\* admitted otherwise.
C3_LeakMonotonicity ==
    [][\A p \in Reqs :
          (burstBase = 0 /\ Attempted(p))
              => IF burstAdm >= capacity THEN RejectedStep(p) ELSE AdmittedStep(p)]_vars

C3_Witness ==
    /\ burstBase = 0
    /\ burstAdm = capacity
    /\ burstRej >= 1
    /\ burstKinds = Kinds

\* ---- C8 ----------------------------------------------------------------------
\* C8 as stated: the level stays within [0, capacity].
C8_LevelWithinCapacity == 0 <= level /\ level <= capacity * TicksPerToken

\* C8 as amended: the level stays within [0, capacity + 1): an admission made
\* at a leaked level strictly between capacity - 1 and capacity raises the
\* level above capacity, by less than one unit.
C8_LevelBound == 0 <= level /\ level < (capacity + 1) * TicksPerToken

C8_Witness == level > capacity * TicksPerToken

\* ---- C9 ----------------------------------------------------------------------
\* C9 as stated: after a rejection, the attempt made after a wait of at least
\* 1 / leak_rate is admitted, and the attempt that immediately follows that
\* admission is rejected.
C9_RecoveryAdmitsExactlyOne ==
    [][\A p \in Reqs :
          Attempted(p) =>
              /\ (recov.stage \in {"rejected", "resaturated"} /\ elapsed >= TicksPerToken)
                     => AdmittedStep(p)
              /\ (recov.stage = "readmitted") => RejectedStep(p)]_vars

\* C9 as amended: after a rejection at leaked level L, the attempt made after a
\* wait that leaks w >= 1 unit is admitted; the attempt that immediately
\* follows that admission is rejected if and only if w <= L - capacity + 1 (as
\* it is when the wait is exactly 1 / leak_rate), and is admitted otherwise.
C9_LeakRecovery ==
    [][\A p \in Reqs :
          Attempted(p) =>
              /\ (recov.stage \in {"rejected", "resaturated"} /\ elapsed >= TicksPerToken)
                     => AdmittedStep(p)
              /\ (recov.stage = "readmitted")
                     => IF recov.leak <= recov.level - capacity * TicksPerToken + TicksPerToken
                        THEN RejectedStep(p)
                        ELSE AdmittedStep(p)]_vars

C9_Witness == recov.stage = "resaturated" /\ recov.leak >= TicksPerToken

\* ---- C4 ----------------------------------------------------------------------
\* C4: stream ceiling.  For an upload with no declared content-length, the chunk
\* that takes the received total above the ceiling is answered 413, ends the
\* request (no further chunk is read) and leaves no file of that name; a chunk
\* that keeps the total at or below the ceiling is appended and the request
\* goes on, the end of the stream is never answered 413, and no stored file
\* ever holds more bytes than the ceiling.
C4_StreamCeiling ==
    [][\A p \in Reqs :
          (req[p].pc = "stream" /\ req[p].length_val = -1 /\ req'[p] # req[p]) =>
              /\ \A c \in Chunks \ {<<>>} :
                    StreamChunk(p, c) =>
                        IF Len(req[p].body) + Len(c) > MAX_PDF_SIZE_BYTES
                        THEN /\ response' = Response(413, "stream")
                             /\ req'[p] = Idle
                             /\ req[p].name \notin DOMAIN files'
                        ELSE /\ req'[p].pc = "stream"
                             /\ req'[p].body = req[p].body \o c
                             /\ files'[req[p].name] = files[req[p].name] \o c
                             /\ response' = response
              /\ (\E m, y \in BOOLEAN : StreamEnd(p, m, y)) => response'.status # 413
              /\ \A n \in DOMAIN files' : Len(files'[n]) <= MAX_PDF_SIZE_BYTES]_vars

C4_Witness ==
    /\ response = Response(413, "stream")
    /\ \E p \in Reqs :
          /\ req[p].pc = "stream"
          /\ req[p].length_val = -1
          /\ Len(req[p].body) = MAX_PDF_SIZE_BYTES
          /\ files[req[p].name] = req[p].body

PdfType == [present |-> TRUE, value |-> "application/pdf"]

Alone(p) == \A q \in Reqs \ {p} : req[q].pc = "idle"

\* the second upload of C6: whenever a request is about to be validated, an
\* upload of a name an earlier upload was answered 201 for, declaring
\* application/pdf and no length above the ceiling, is one the handler answers 409
SecondUploadRejected ==
    (\E p \in Reqs : req[p].pc = "admitted") =>
        \A n \in created, l \in LengthHeaders :
            ~length_too_large(l) =>
                PreStreamStatus(files, [present |-> TRUE, value |-> n], PdfType, l) = 409

\* a request answered 409 ends there and leaves the store alone, and no step
\* changes the bytes stored by an upload that was answered 201
StoredBytesUnchanged ==
    /\ \A p \in Reqs :
          (ValidatedStep(p) /\ req'[p].pc = "idle" /\ response' = Response(409, "validate"))
              => (req'[p] = Idle /\ files' = files /\ sidecars' = sidecars)
    /\ \A n \in created : n \in DOMAIN files' /\ files'[n] = files[n]

C7_CleanupOnFailure ==
    [][\A p \in Reqs :
          (EndedStep(p) /\ StreamRaises(p))
              => (req'[p] = Idle /\ req[p].name \notin DOMAIN files')]_vars

\* ---- C10 ---------------------------------------------------------------------
\* the rejection C10 expects: the first, in the order 400, 415, 413, 409, of
\* the violations the request has; 0 when it has none
ExpectedRejection(fs, n, t, l) ==
    LET violations ==
            (IF missing_file_name(n) THEN {400} ELSE {})
                \cup (IF ~missing_file_name(n) /\ check_type(n.value, t) THEN {415} ELSE {})
                \cup (IF length_too_large(l) THEN {413} ELSE {})
                \cup (IF n.value \in DOMAIN fs THEN {409} ELSE {})
    IN  IF 400 \in violations THEN 400
        ELSE IF 415 \in violations THEN 415
        ELSE IF 413 \in violations THEN 413
        ELSE IF 409 \in violations THEN 409
        ELSE 0

\* C10: pre-stream validation is fail-fast and effect-free.  Whenever a request
\* is about to be validated, whatever headers it carries, the handler answers
\* with the first of 400, 415, 413, 409 that applies (and goes on to stream
\* when none does); a request rejected there ends before any chunk is read and
\* leaves the stored files, their bytes, the sidecars and the table unchanged.
C10_PreStreamValidation ==
    /\ [](\A p \in Reqs :
            req[p].pc = "admitted" =>
                \A n \in NameHeaders, t \in TypeHeaders, l \in LengthHeaders :
                    PreStreamStatus(files, n, t, l) = ExpectedRejection(files, n, t, l))
    /\ [][\A p \in Reqs :
            ValidatedStep(p) =>
                IF req'[p].pc = "idle"
                THEN /\ response'.phase = "validate"
                     /\ response'.status \in {400, 415, 413, 409}
                     /\ req'[p] = Idle
                     /\ files' = files
                     /\ sidecars' = sidecars
                     /\ db' = db
                ELSE /\ req'[p].pc = "stream"
                     /\ req'[p].body = <<>>
                     /\ req'[p].name \notin DOMAIN files]_vars

C10_Witness ==
    /\ response = Response(413, "validate")
    /\ created # {}
    /\ DOMAIN files = created
    /\ DOMAIN sidecars = created
    /\ \A p \in Reqs : req[p].pc = "idle"

\* ---- C11 ---------------------------------------------------------------------
\* the name ends in .pdf, in any letter case
HasPdfExtension(n) ==
    /\ Len(n) >= 4
    /\ n[Len(n) - 3] = "."
    /\ n[Len(n) - 2] \in {"p", "P"}
    /\ n[Len(n) - 1] \in {"d", "D"}
    /\ n[Len(n)] \in {"f", "F"}

\* the content-type header is not sent, or is sent empty
TypeAbsent(t) == ~t.present \/ t.value = ""

\* the content-type is application/pdf or application/x-pdf, in any letter case
TypeAllowed(t) ==
    t.value \in {"application/pdf", "application/x-pdf", "Application/PDF", "Application/X-PDF"}

LineKeys(file) == {file.lines[i][1] : i \in {j \in DOMAIN file.lines : Len(file.lines[j]) = 2}}

\* the values the lines of a sidecar file give a key
LineValues(file, key) ==
    {file.lines[i][2] :
        i \in {j \in DOMAIN file.lines : Len(file.lines[j]) = 2 /\ file.lines[j][1] = key}}

\* C12: successful upload result.  When the stream of an upload ends, the bytes
\* received start with %PDF, and the sidecar write and the store sync succeed,
\* the request is answered 201 with that file name, the stored file holds
\* exactly the chunks received, in the order received, a readable sidecar of
\* that name holds the four keys unique_id, file_name, storage_path and
\* uploaded_at with that file name, and the unique_id of the response is the
\* unique_id of the sidecar.
C12_SuccessfulUpload ==
    [][\A p \in Reqs :
          (EndedStep(p) /\ HasSignature(req[p].body) /\ StreamEnd(p, TRUE, TRUE))
              => LET n == req[p].name
                 IN  /\ response' = Response(201, "finish")
                     /\ payload'.file_name = n
                     /\ n \in DOMAIN files'
                     /\ files'[n] = req[p].body
                     /\ n \in DOMAIN sidecars'
                     /\ sidecars'[n].readable
                     /\ LineKeys(sidecars'[n])
                            = {"unique_id", "file_name", "storage_path", "uploaded_at"}
                     /\ LineValues(sidecars'[n], "file_name") = {n}
                     /\ LineValues(sidecars'[n], "unique_id") = {payload'.unique_id}]_vars

C12_Witness ==
    /\ response = Response(201, "finish")
    /\ payload.file_name \in DOMAIN files
    /\ Len(files[payload.file_name]) = MAX_PDF_SIZE_BYTES
    /\ HasSignature(files[payload.file_name])
    /\ payload.unique_id \in LineValues(sidecars[payload.file_name], "unique_id")

\* ---- C13 ---------------------------------------------------------------------
\* the phase a request is in: 0 before it arrives and after its response, then
\* the admission check, the validation, and the streaming; the metadata
\* recording, the store sync and the response follow the end of the stream
\* with no suspension between them
Phase(p) ==
    CASE req[p].pc = "pending" -> 1
      [] req[p].pc = "admitted" -> 2
      [] req[p].pc = "stream" -> 3
      [] OTHER -> 0

\* the unique_ids of the sidecars of a directory
SidecarIds(dir) == UNION {LineValues(dir[n], "unique_id") : n \in DOMAIN dir}

\* the unique_ids of the rows of a table
RowIds(rows) == {rows[i].unique_id : i \in DOMAIN rows}

\* C13: per-request phase ordering.  A request only moves forward through the
\* admission check, the validation and the streaming, or ends; a sidecar is
\* written only by the step that ends the stream of a request whose received
\* bytes are all stored and start with %PDF; the table changes only in such a
\* step and then holds rows of written sidecars only; a 201 is sent only with
\* the row of its upload in the table; a request in progress has been sent no
\* response, and the step that ends it sends exactly one.
C13_PhaseOrdering ==
    [][/\ \A p \in Reqs :
             /\ Phase(p) # 0 => (req'[p].pc = "idle" \/ Phase(p) <= Phase(p)')
             /\ Phase(p)' # 0 => answered'[p] = 0
             /\ (Phase(p) # 0 /\ Phase(p)' = 0) => answered'[p] = 1
             /\ (Phase(p) = 0 /\ Phase(p)' = 0) => answered'[p] = answered[p]
             /\ (Phase(p) = 0 /\ Phase(p)' # 0) => Phase(p)' = 1
             /\ (EndedStep(p) /\ response' = Response(201, "finish")
                    /\ answered'[p] # answered[p])
                   => /\ payload'.unique_id \in RowIds(db')
                      /\ payload'.unique_id \in SidecarIds(sidecars')
       /\ sidecars' # sidecars =>
             \E p \in Reqs :
                /\ EndedStep(p)
                /\ HasSignature(req[p].body)
                /\ files[req[p].name] = req[p].body
                /\ DOMAIN sidecars' = DOMAIN sidecars \cup {req[p].name}
                /\ \A n \in DOMAIN sidecars \ {req[p].name} : sidecars'[n] = sidecars[n]
       /\ db' # db => (sidecars' # sidecars /\ RowIds(db') \subseteq SidecarIds(sidecars'))
       /\ response' # response => \E p \in Reqs : answered'[p] = answered[p] + 1]_vars

C13_Witness ==
    /\ response = Response(201, "finish")
    /\ payload.unique_id \in RowIds(db)
    /\ \E p \in Reqs : req[p].pc = "admitted" /\ answered[p] = 0
    /\ \E p \in Reqs : req[p].pc = "idle" /\ answered[p] = 1

\* ---- C14 ---------------------------------------------------------------------
\* the unique_ids of the well-formed sidecars of a directory
GoodIds(dir) == {id \in Ids : \E n \in DOMAIN dir : dir[n] \in GoodSidecars(n, id)}

\* a direct call of the sync runs in this step
SyncedStep == Len(synced') = Len(synced) + 1

\* C14: idempotent sync.  Each sync of a directory leaves exactly one row for
\* the unique_id of every well-formed sidecar and returns the number of those
\* unique_ids that had no row before it; a sync of the same directory that
\* follows another returns 0 and leaves the table as it was.
C14_IdempotentSync ==
    [][SyncedStep =>
          /\ \A id \in GoodIds(sidecars) :
                Cardinality({i \in DOMAIN db' : db'[i].unique_id = id}) = 1
          /\ synced'[Len(synced')] = Cardinality(GoodIds(sidecars) \ RowIds(db))
          /\ Len(synced) >= 1 => (synced'[Len(synced')] = 0 /\ db' = db)]_vars

C14_Witness ==
    /\ Len(synced) = 2
    /\ synced[1] = 2
    /\ synced[2] = 0
    /\ Len(db) = 3

\* ---- C15 ---------------------------------------------------------------------
\* two requests stream to the same destination
SharedDestination ==
    \E p, q \in Reqs :
        /\ p # q
        /\ req[p].pc = "stream"
        /\ req[q].pc = "stream"
        /\ req[p].name = req[q].name

\* C15 as stated: with two uploads of one file name in flight, the first
\* streaming and the second at its duplicate check, the second can pass the
\* check too, which takes both to stream to the same destination.
C15_BothPassDuplicateCheck ==
    \A p, q \in Reqs :
        (p # q /\ req[p].pc = "stream" /\ req[q].pc = "admitted") =>
            ENABLED (/\ HandleUpload(q, [present |-> TRUE, value |-> req[p].name],
                                     PdfType, NoLength)
                     /\ req'[q].pc = "stream")

\* C15 as amended: no two requests ever stream to the same destination, and an
\* upload that comes to its duplicate check while another upload of the same
\* name is streaming is answered 409: the check and the creation of the
\* destination run with no suspension point between them.
C15_NoSharedDestination ==
    /\ []~SharedDestination
    /\ [][\A p, q \in Reqs :
            (p # q /\ req[p].pc = "stream" /\ ValidatedStep(q)
                /\ HandleUpload(q, [present |-> TRUE, value |-> req[p].name],
                                PdfType, NoLength))
               => (req'[q] = Idle /\ response' = Response(409, "validate"))]_vars

C15_Witness ==
    /\ response = Response(409, "validate")
    /\ created = {}
    /\ \E p, q \in Reqs :
          /\ req[p].pc = "stream"
          /\ req[p].body # <<>>
          /\ req[q].pc = "idle"
          /\ answered[q] = 1

LeakedLevel == IF level > elapsed THEN level - elapsed ELSE 0

\* C17: rejection does not fill the bucket.  An admission attempt made when
\* the leaked level is at or above capacity is answered 503 and leaves the
\* level at the leaked value; an attempt made below capacity is admitted and
\* leaves the level at the leaked value plus one unit; either way the time of
\* the last access becomes the current time.
C17_RejectionDoesNotFill ==
    [][\A p \in Reqs :
          Attempted(p) =>
              /\ elapsed' = 0
              /\ IF LeakedLevel >= capacity * TicksPerToken
                 THEN RejectedStep(p) /\ level' = LeakedLevel
                 ELSE AdmittedStep(p) /\ level' = LeakedLevel + TicksPerToken]_vars

C17_Witness ==
    /\ response = Response(503, "admission")
    /\ recov.stage = "rejected"
    /\ elapsed = 0
    /\ level = recov.level
    /\ level > capacity * TicksPerToken
    /\ burstBase < level

\* ---- C18 ---------------------------------------------------------------------
\* C18: lock discipline.  The lock is free whenever a request is suspended,
\* on a stream chunk as anywhere else; an admission attempt leaves it free
\* whether it admits or rejects; and every request waiting for its admission
\* check eventually gets through it.
C18_LockDiscipline ==
    /\ [](lock = NoHolder)
    /\ [][\A p \in Reqs :
            Attempted(p) => ((RejectedStep(p) \/ AdmittedStep(p)) /\ lock' = NoHolder)]_vars
    /\ \A p \in Reqs : (req[p].pc = "pending") ~> (req[p].pc # "pending")

C18_Witness ==
    /\ lock = NoHolder
    /\ response = Response(503, "admission")
    /\ \E p, q \in Reqs :
          /\ req[p].pc = "stream"
          /\ req[p].body # <<>>
          /\ req[q].pc = "pending"

\* ---- C19 ---------------------------------------------------------------------
\* the records of the well-formed sidecars of a directory
GoodRecords(dir) ==
    {Row(x[1], x[2]) : x \in {y \in Ids \X DOMAIN dir : dir[y[2]] \in GoodSidecars(y[2], y[1])}}

\* the names of the malformed sidecars of a directory
BadNames(dir) == {n \in DOMAIN dir : dir[n] \in BadSidecars(n)}

\* C19: loader tolerance.  Whatever mix of well-formed and malformed sidecars
\* the directory holds and in whatever order they are listed, the loader
\* returns the records of the well-formed sidecars, one for each, and nothing
\* else; and a sync of the directory leaves a row for every well-formed
\* sidecar, whatever malformed ones stand beside it.
C19_LoaderTolerance ==
    /\ [](\A ord \in GlobOrders(sidecars) :
            LET records == load_metadata_from_dir(sidecars, ord)
            IN  /\ {records[i] : i \in DOMAIN records} = GoodRecords(sidecars)
                /\ Len(records) = Cardinality(DOMAIN sidecars \ BadNames(sidecars)))
    /\ [][SyncedStep =>
            \A r \in GoodRecords(sidecars) : r.unique_id \in RowIds(db')]_vars

C19_Witness ==
    /\ Len(synced) = 1
    /\ synced[1] = 1
    /\ BadNames(sidecars) # {}
    /\ GoodRecords(sidecars) # {}
    /\ Len(db) = 2

\* ---- C20 ---------------------------------------------------------------------
\* the statuses an admitted upload ends with
UploadOutcomes == {400, 409, 413, 415, 500, 201}

\* C20: admission tokens are never refunded.  The admission of an upload
\* leaves the level one unit above the leaked level; every later step of the
\* upload, whatever status it answers, leaves the level as it is; and the
\* level goes down only in an admission attempt, by no more than the time
\* since the last access has leaked.
C20_NoRefund ==
    [][/\ \A p \in Reqs :
             /\ (Attempted(p) /\ req'[p].pc = "admitted")
                   => level' = LeakedLevel + TicksPerToken
             /\ (Phase(p) \in {2, 3} /\ req'[p] # req[p])
                   => /\ level' = level
                      /\ req'[p].pc = "idle" => response'.status \in UploadOutcomes
       /\ level' # level => \E p \in Reqs : Attempted(p)
       /\ level' < level => (elapsed > 0 /\ level' >= level - elapsed)]_vars

C20_Witness ==
    /\ level = capacity * TicksPerToken
    /\ elapsed = 0
    /\ response = Response(201, "finish")
    /\ created # {}
    /\ \A p \in Reqs : req[p].pc = "idle" /\ answered[p] = 1


\* ---- C21 ---------------------------------------------------------------------
\* the header triples that name n and take an upload as far as its duplicate check
ReachDuplicateCheck(n) ==
    {h \in UploadHeaders :
        /\ h[1] = [present |-> TRUE, value |-> n]
        /\ ~check_type(n, h[2])
        /\ ~length_too_large(h[3])}

\* C21: an in-flight upload reserves its name.  The destination of an upload
\* exists for as long as the upload is streaming, since it is created in the
\* step that passes the duplicate check; every other upload of the name that
\* reaches its duplicate check meanwhile is answered 409 and touches no file;
\* and this stands when the streaming upload later ends with 413 or 415, which
\* removes the destination and leaves the refusal as it was.
C21_NameReserved ==
    /\ [](\A p \in Reqs : req[p].pc = "stream" => req[p].name \in DOMAIN files)
    /\ [][\A p, q \in Reqs :
            (p # q /\ req[p].pc = "stream" /\ ValidatedStep(q)) =>
                \A h \in ReachDuplicateCheck(req[p].name) :
                    HandleUpload(q, h[1], h[2], h[3]) =>
                        /\ req'[q] = Idle
                        /\ response' = Response(409, "validate")
                        /\ refused' = req[p].name
                        /\ files' = files]_vars
    /\ [][\A p \in Reqs :
            (EndedStep(p) /\ response'.status \in {413, 415}) =>
                /\ req[p].name \notin DOMAIN files'
                /\ refused' = refused]_vars

C21_Witness ==
    /\ refused = NAME_A_PDF
    /\ NAME_A_PDF \notin DOMAIN files
    /\ created = {}
    /\ response = Response(413, "stream")
    /\ \A p \in Reqs : req[p].pc = "idle" /\ answered[p] = 1


====
